---- MODULE Spec2Model ----
(***************************************************************************)
(* Model of icicle-cpu/src/lib.rs: the BlockTable translation cache and   *)
(* the ExceptionCode taxonomy with its conversions.                        *)
(*                                                                         *)
(* Spec     : the BlockTable state machine (map, blocks, disasm,           *)
(*            breakpoints, modified) driven by its operations.             *)
(* SpecExc  : the ExceptionCode functions applied to inputs drawn from     *)
(*            bounded sets, under both build configurations.               *)
(***************************************************************************)
EXTENDS Integers, Sequences, FiniteSets, TLC

VARIABLES
    map,              \* BlockTable.map: BlockKey -> BlockGroup
    blocks,           \* BlockTable.blocks: Vec<lifter::Block>
    disasm,           \* BlockTable.disasm: u64 -> String
    breakpoints,      \* BlockTable.breakpoints: HashSet<u64>
    modified,         \* BlockTable.modified: HashSet<usize>
    latest,           \* per key: the group inserted last since the last flush
    stale,            \* what the entry key looked up to when the last flush ran
    flushed,          \* whether the operation performed last was flush_code
    debug_assertions, \* cfg!(debug_assertions) of the build
    call,             \* the ExceptionCode function applied last
    arg,              \* its argument
    ret               \* its result

tableVars == <<map, blocks, disasm, breakpoints, modified, latest, stale, flushed>>
excVars == <<debug_assertions, call, arg, ret>>
vars == <<map, blocks, disasm, breakpoints, modified, latest, stale, flushed, debug_assertions, call, arg, ret>>

(***************************************************************************)
(* Bounds                                                                  *)
(***************************************************************************)
MaxBlocks == 2

Min(a, b) == IF a < b THEN a ELSE b

None == "none"
Panic == "panic"

(***************************************************************************)
(* BlockKey, Block, BlockGroup                                             *)
(***************************************************************************)
BlockKey(vaddr, isa_mode) == [vaddr |-> vaddr, isa_mode |-> isa_mode]

\* the entry point of the end-to-end scenario, a key differing from it in
\* isa_mode only and a key differing from it in vaddr only
EntryKey == BlockKey(\H400000, 0)
Keys == {EntryKey, BlockKey(\H400000, 1), BlockKey(\H400010, 0)}

Marker(addr, len) == [op |-> "InstructionMarker", inputs |-> <<addr, len>>]
Copy == [op |-> "Copy", inputs |-> <<0, 0>>]

\* markers at stream positions 0, 5 and 9 carrying 0x1000, 0x1002, 0x1005
ExampleBlock ==
    <<Marker(\H1000, 2), Copy, Copy, Copy, Copy,
      Marker(\H1002, 3), Copy, Copy, Copy,
      Marker(\H1005, 1)>>

EmptyBlock == <<>>

BlockPool == {ExampleBlock, EmptyBlock}

\* BlockGroup: the half-open index range blocks.0 .. blocks.1 over the block store
BlockGroup(lo, hi) == <<lo, hi>>

range(group) == group[1]..(group[2] - 1)

\* groups a lifter can hand out for a store of the given length
GroupsInside(len) ==
    {g \in {BlockGroup(lo, hi) : lo \in 0..len, hi \in 0..len} : g[1] < g[2]}

EmptyMap == [k \in {} |-> None]

DisasmAddrs == {\H1000}
BreakAddrs == {\H1000}

(***************************************************************************)
(* BlockTable operations                                                   *)
(***************************************************************************)
\* a flush that forgets the lookup map
flush_code_keeps_map ==
    /\ map' = map
    /\ blocks' = <<>>
    /\ disasm' = EmptyMap
    /\ modified' = {}
    /\ UNCHANGED breakpoints

\* a flush that also drops the breakpoints
flush_code_drops_breakpoints ==
    /\ map' = EmptyMap
    /\ blocks' = <<>>
    /\ disasm' = EmptyMap
    /\ modified' = {}
    /\ breakpoints' = {}

flush_code ==
    /\ map' = EmptyMap
    /\ blocks' = <<>>
    /\ disasm' = EmptyMap
    /\ modified' = {}
    /\ UNCHANGED breakpoints

\* a lookup that hashes the virtual address only
get_info_ignores_isa_mode(key) ==
    IF \E k \in DOMAIN map : k.vaddr = key.vaddr
    THEN map[CHOOSE k \in DOMAIN map : k.vaddr = key.vaddr]
    ELSE None

get_info(key) ==
    IF key \in DOMAIN map THEN map[key] ELSE None

\* position p of the stream is element p + 1 of the sequence
MarkerAddrs(instructions) ==
    LET marks == SelectSeq(instructions, LAMBDA inst : inst.op = "InstructionMarker")
    IN  [i \in 1..Len(marks) |-> marks[i].inputs[1]]

address_of(id, offset) ==
    LET block == blocks[id + 1]
        taken == SubSeq(block, 1, Min(offset, Len(block)))
        addrs == MarkerAddrs(taken)
    IN  IF Len(addrs) = 0 THEN 0 ELSE addrs[Len(addrs)]

\* BlockInfoRef::entry_block and BlockInfoRef::blocks index the store directly
InBounds(group) ==
    /\ group[1] <= group[2]
    /\ \A i \in range(group) : i < Len(blocks)

insert(key, group) ==
    /\ map' = [k \in DOMAIN map \cup {key} |-> IF k = key THEN group ELSE map[k]]
    /\ UNCHANGED <<blocks, disasm, breakpoints, modified>>

append_block(block) ==
    /\ blocks' = Append(blocks, block)
    /\ UNCHANGED <<map, disasm, breakpoints, modified>>

mark_modified(index) ==
    /\ modified' = modified \cup {index}
    /\ UNCHANGED <<map, blocks, disasm, breakpoints>>

add_breakpoint(addr) ==
    /\ breakpoints' = breakpoints \cup {addr}
    /\ UNCHANGED <<map, blocks, disasm, modified>>

cache_disasm(addr) ==
    /\ disasm' = [a \in DOMAIN disasm \cup {addr} |-> "disasm"]
    /\ UNCHANGED <<map, blocks, breakpoints, modified>>

(***************************************************************************)
(* The driver of the BlockTable                                            *)
(***************************************************************************)

Insert ==
    /\ \E key \in Keys, group \in GroupsInside(Len(blocks)) :
         /\ insert(key, group)
         /\ latest' = [latest EXCEPT ![key] = group]
    /\ UNCHANGED <<stale, flushed>>
    /\ UNCHANGED excVars

AppendBlock ==
    /\ Len(blocks) < MaxBlocks
    /\ \E block \in BlockPool : append_block(block)
    /\ UNCHANGED <<latest, stale>>
    /\ flushed' = FALSE
    /\ UNCHANGED excVars

MarkModified ==
    /\ \E index \in 0..(Len(blocks) - 1) : mark_modified(index)
    /\ UNCHANGED <<latest, stale>>
    /\ flushed' = FALSE
    /\ UNCHANGED excVars

AddBreakpoint ==
    /\ \E addr \in BreakAddrs : add_breakpoint(addr)
    /\ UNCHANGED <<latest, stale>>
    /\ flushed' = FALSE
    /\ UNCHANGED excVars

CacheDisasm ==
    /\ \E addr \in DisasmAddrs : cache_disasm(addr)
    /\ UNCHANGED <<latest, stale>>
    /\ flushed' = FALSE
    /\ UNCHANGED excVars

FlushCode ==
    /\ flush_code
    /\ latest' = [k \in Keys |-> None]
    /\ stale' = get_info(EntryKey)
    /\ flushed' = TRUE
    /\ UNCHANGED excVars

Init ==
    /\ map = EmptyMap
    /\ blocks = <<>>
    /\ disasm = EmptyMap
    /\ breakpoints = {}
    /\ modified = {}
    /\ latest = [k \in Keys |-> None]
    /\ stale = None
    /\ flushed = FALSE
    /\ debug_assertions = FALSE
    /\ call = None
    /\ arg = None
    /\ ret = None

Next ==
    \/ Insert
    \/ AppendBlock
    \/ MarkModified
    \/ AddBreakpoint
    \/ CacheDisasm
    \/ FlushCode

Spec == Init /\ [][Next]_vars

(***************************************************************************)
(* ExceptionCode                                                           *)
(***************************************************************************)
ExceptionCode ==
    {
     "None", "InstructionLimit", "Halt", "Sleep", "Syscall",
     "CpuStateChanged", "DivideByZero", "ReadUnmapped", "ReadPerm",
     "ReadUnaligned", "ReadWatch", "ReadUninitialized", "WriteUnmapped",
     "WritePerm", "WriteWatch", "WriteUnaligned", "ExecViolation",
     "SelfModifyingCode", "ExecUnaligned", "OutOfMemory", "AddressOverflow",
     "InvalidInstruction", "UnknownInterrupt", "UnknownCpuID",
     "InvalidOpSize", "InvalidFloatSize", "CodeNotTranslated",
     "ShadowStackOverflow", "ShadowStackInvalid", "InvalidTarget",
     "UnimplementedOp", "ExternalAddr", "Environment", "JitError",
     "InternalError", "UnknownError"
    }

\* `v as u32`: the discriminants of the #[repr(u32)] enum; UnknownError has no
\* literal and takes the one after InternalError
as_u32(v) ==
    CASE
         v = "None" -> \H0000
      [] v = "InstructionLimit" -> \H0001
      [] v = "Halt" -> \H0002
      [] v = "Sleep" -> \H0003
      [] v = "Syscall" -> \H0101
      [] v = "CpuStateChanged" -> \H0102
      [] v = "DivideByZero" -> \H0103
      [] v = "ReadUnmapped" -> \H0201
      [] v = "ReadPerm" -> \H0202
      [] v = "ReadUnaligned" -> \H0203
      [] v = "ReadWatch" -> \H0204
      [] v = "ReadUninitialized" -> \H0205
      [] v = "WriteUnmapped" -> \H0301
      [] v = "WritePerm" -> \H0302
      [] v = "WriteWatch" -> \H0303
      [] v = "WriteUnaligned" -> \H0304
      [] v = "ExecViolation" -> \H0401
      [] v = "SelfModifyingCode" -> \H0402
      [] v = "ExecUnaligned" -> \H0404
      [] v = "OutOfMemory" -> \H0501
      [] v = "AddressOverflow" -> \H0502
      [] v = "InvalidInstruction" -> \H1001
      [] v = "UnknownInterrupt" -> \H1002
      [] v = "UnknownCpuID" -> \H1003
      [] v = "InvalidOpSize" -> \H1004
      [] v = "InvalidFloatSize" -> \H1005
      [] v = "CodeNotTranslated" -> \H1006
      [] v = "ShadowStackOverflow" -> \H1007
      [] v = "ShadowStackInvalid" -> \H1008
      [] v = "InvalidTarget" -> \H1009
      [] v = "UnimplementedOp" -> \H100a
      [] v = "ExternalAddr" -> \H2001
      [] v = "Environment" -> \H2002
      [] v = "JitError" -> \H3001
      [] v = "InternalError" -> \H3002
      [] v = "UnknownError" -> \H3002 + 1

\* the catch-all arm of from_u32
unknown_code == IF debug_assertions THEN Panic ELSE "UnknownError"

from_u32(code) ==
    CASE
         code = \H0000 -> "None"
      [] code = \H0001 -> "InstructionLimit"
      [] code = \H0002 -> "Halt"
      [] code = \H0003 -> "Sleep"
      [] code = \H0101 -> "Syscall"
      [] code = \H0102 -> "CpuStateChanged"
      [] code = \H0103 -> "DivideByZero"
      [] code = \H0201 -> "ReadUnmapped"
      [] code = \H0202 -> "ReadPerm"
      [] code = \H0203 -> "ReadUnaligned"
      [] code = \H0204 -> "ReadWatch"
      [] code = \H0205 -> "ReadUninitialized"
      [] code = \H0301 -> "WriteUnmapped"
      [] code = \H0302 -> "WritePerm"
      [] code = \H0303 -> "WriteWatch"
      [] code = \H0304 -> "WriteUnaligned"
      [] code = \H0401 -> "ExecViolation"
      [] code = \H0402 -> "SelfModifyingCode"
      [] code = \H0501 -> "OutOfMemory"
      [] code = \H0502 -> "AddressOverflow"
      [] code = \H1001 -> "InvalidInstruction"
      [] code = \H1002 -> "UnknownInterrupt"
      [] code = \H1003 -> "UnknownCpuID"
      [] code = \H1004 -> "InvalidOpSize"
      [] code = \H1005 -> "InvalidFloatSize"
      [] code = \H1006 -> "CodeNotTranslated"
      [] code = \H1007 -> "ShadowStackOverflow"
      [] code = \H1008 -> "ShadowStackInvalid"
      [] code = \H1009 -> "InvalidTarget"
      [] code = \H100a -> "UnimplementedOp"
      [] code = \H2001 -> "ExternalAddr"
      [] code = \H2002 -> "Environment"
      [] code = \H3001 -> "JitError"
      [] code = \H3002 -> "InternalError"
      [] OTHER -> unknown_code

\* an is_running that also counts Halt as running
is_running_with_halt(self) == self \in {"None", "InstructionLimit", "Halt"}

is_running(self) == self \in {"None", "InstructionLimit"}

is_memory_error(self) ==
    self \in {"ReadUnmapped", "ReadPerm", "ReadUnaligned", "ReadWatch",
              "ReadUninitialized", "WriteUnmapped", "WritePerm", "WriteWatch",
              "WriteUnaligned", "SelfModifyingCode"}

MemError ==
    {"Unmapped", "Uninitalized", "ReadViolation", "WriteViolation",
     "ExecViolation", "ReadWatch", "WriteWatch", "Unaligned", "OutOfMemory",
     "SelfModifyingCode", "AddressOverflow", "Unallocated", "Unknown"}

\* impl From<icicle_mem::MemError> for ExceptionCode
from_MemError(err) ==
    CASE err = "Unmapped" -> "ReadUnmapped"
      [] err = "Uninitalized" -> "ReadUninitialized"
      [] err = "ReadViolation" -> "ReadPerm"
      [] err = "WriteViolation" -> "WritePerm"
      [] err = "ExecViolation" -> "ExecViolation"
      [] err = "ReadWatch" -> "ReadWatch"
      [] err = "WriteWatch" -> "WriteWatch"
      [] err = "Unaligned" -> "ReadUnaligned"
      [] err = "OutOfMemory" -> "OutOfMemory"
      [] err = "SelfModifyingCode" -> "SelfModifyingCode"
      [] err = "AddressOverflow" -> "AddressOverflow"
      [] err \in {"Unallocated", "Unknown"} -> "UnknownError"

\* a load conversion whose Unaligned arm was copied from the store conversion
from_load_error_store_arm(err) ==
    CASE err = "Unmapped" -> "ReadUnmapped"
      [] err = "Uninitalized" -> "ReadUninitialized"
      [] err = "ReadViolation" -> "ReadPerm"
      [] err = "Unaligned" -> "WriteUnaligned"
      [] err = "ReadWatch" -> "ReadWatch"
      [] OTHER -> from_MemError(err)

from_load_error(err) ==
    CASE err = "Unmapped" -> "ReadUnmapped"
      [] err = "Uninitalized" -> "ReadUninitialized"
      [] err = "ReadViolation" -> "ReadPerm"
      [] err = "Unaligned" -> "ReadUnaligned"
      [] err = "ReadWatch" -> "ReadWatch"
      [] OTHER -> from_MemError(err)

\* a store conversion that leaves Unmapped to the generic conversion
from_store_error_no_unmapped(err) ==
    CASE err = "WriteViolation" -> "WritePerm"
      [] err = "Unaligned" -> "WriteUnaligned"
      [] err = "WriteWatch" -> "WriteWatch"
      [] OTHER -> from_MemError(err)

from_store_error(err) ==
    CASE err = "Unmapped" -> "WriteUnmapped"
      [] err = "WriteViolation" -> "WritePerm"
      [] err = "Unaligned" -> "WriteUnaligned"
      [] err = "WriteWatch" -> "WriteWatch"
      [] OTHER -> from_MemError(err)

DecodeError ==
    {"InvalidInstruction", "NonExecutableMemory", "BadAlignment",
     "DisassemblyChanged", "OptimizationError"}

\* a decode conversion that reports a misaligned fetch as an invalid instruction
from_DecodeError_bad_alignment(err) ==
    CASE err = "InvalidInstruction" -> "InvalidInstruction"
      [] err = "NonExecutableMemory" -> "ExecViolation"
      [] err = "BadAlignment" -> "InvalidInstruction"
      [] err = "DisassemblyChanged" -> "SelfModifyingCode"
      [] err = "OptimizationError" -> "UnknownError"

\* impl From<DecodeError> for ExceptionCode
from_DecodeError(err) ==
    CASE err = "InvalidInstruction" -> "InvalidInstruction"
      [] err = "NonExecutableMemory" -> "ExecViolation"
      [] err = "BadAlignment" -> "ExecUnaligned"
      [] err = "DisassemblyChanged" -> "SelfModifyingCode"
      [] err = "OptimizationError" -> "UnknownError"

(***************************************************************************)
(* The callers of the ExceptionCode functions                              *)
(***************************************************************************)
\* the numeric codes handed to from_u32: every discriminant of the enum, the
\* gaps next to them and a large value
CodeInputs ==
    {as_u32(v) : v \in ExceptionCode} \cup
    {\H0004, \H0100, \H0403, \H0405, \H100b, \H2003, \H7fffffff}

FromU32 ==
    /\ \E code \in CodeInputs :
         /\ call' = "from_u32"
         /\ arg' = code
         /\ ret' = from_u32(code)
    /\ UNCHANGED debug_assertions
    /\ UNCHANGED tableVars

IsRunning ==
    /\ \E self \in ExceptionCode :
         /\ call' = "is_running"
         /\ arg' = self
         /\ ret' = is_running(self)
    /\ UNCHANGED debug_assertions
    /\ UNCHANGED tableVars

IsMemoryError ==
    /\ \E self \in ExceptionCode :
         /\ call' = "is_memory_error"
         /\ arg' = self
         /\ ret' = is_memory_error(self)
    /\ UNCHANGED debug_assertions
    /\ UNCHANGED tableVars

FromLoadError ==
    /\ \E err \in MemError :
         /\ call' = "from_load_error"
         /\ arg' = err
         /\ ret' = from_load_error(err)
    /\ UNCHANGED debug_assertions
    /\ UNCHANGED tableVars

FromStoreError ==
    /\ \E err \in MemError :
         /\ call' = "from_store_error"
         /\ arg' = err
         /\ ret' = from_store_error(err)
    /\ UNCHANGED debug_assertions
    /\ UNCHANGED tableVars

FromMemError ==
    /\ \E err \in MemError :
         /\ call' = "from_MemError"
         /\ arg' = err
         /\ ret' = from_MemError(err)
    /\ UNCHANGED debug_assertions
    /\ UNCHANGED tableVars

FromDecodeError ==
    /\ \E err \in DecodeError :
         /\ call' = "from_DecodeError"
         /\ arg' = err
         /\ ret' = from_DecodeError(err)
    /\ UNCHANGED debug_assertions
    /\ UNCHANGED tableVars

InitExc ==
    /\ map = EmptyMap
    /\ blocks = <<>>
    /\ disasm = EmptyMap
    /\ breakpoints = {}
    /\ modified = {}
    /\ latest = [k \in Keys |-> None]
    /\ stale = None
    /\ flushed = FALSE
    /\ debug_assertions \in BOOLEAN
    /\ call = None
    /\ arg = None
    /\ ret = None

NextExc ==
    \/ FromU32
    \/ IsRunning
    \/ IsMemoryError
    \/ FromLoadError
    \/ FromStoreError
    \/ FromMemError
    \/ FromDecodeError

SpecExc == InitExc /\ [][NextExc]_vars

(***************************************************************************)
(* Properties of the BlockTable                                            *)
(***************************************************************************)
Max(S) == CHOOSE x \in S : \A y \in S : y <= x

\* the address carried by the last marker at a stream position <= offset
MarkerAtOrBefore(block, offset) ==
    LET at == {i \in 1..Len(block) :
                 block[i].op = "InstructionMarker" /\ i - 1 <= offset}
    IN  IF at = {} THEN 0 ELSE block[Max(at)].inputs[1]

\* C1: for every block and every stream offset, address_of returns the
\* address of the last InstructionMarker at a position less than or equal to
\* the offset, and 0 when there is none.
C1_AddressOfAtOrBefore ==
    \A id \in 0..(Len(blocks) - 1) :
        \A offset \in 0..Len(blocks[id + 1]) :
            address_of(id, offset) = MarkerAtOrBefore(blocks[id + 1], offset)

\* C3: a flush_code step leaves the lookup map, the block store, the
\* disassembly cache and the modified set empty, so that every lookup
\* misses, and leaves the breakpoint set as it was.
C3_FlushClearsAllButBreakpoints ==
    [][flushed' =>
         /\ map' = EmptyMap
         /\ blocks' = <<>>
         /\ disasm' = EmptyMap
         /\ modified' = {}
         /\ \A k \in Keys : get_info(k)' = None
         /\ breakpoints' = breakpoints]_vars

C3_Witness ==
    /\ flushed
    /\ stale # None
    /\ breakpoints # {}
    /\ get_info(EntryKey) = None

\* C4: a lookup under key k returns the group inserted last, since the last
\* flush, under the key with the same vaddr and the same isa_mode, and misses
\* when there is none.
C4_LookupReturnsLatestInsert ==
    \A k \in Keys : get_info(k) = latest[k]

C4_Witness ==
    /\ stale # None
    /\ get_info(EntryKey) # None
    /\ get_info(EntryKey) # stale
    /\ get_info(BlockKey(\H400000, 1)) = None
    /\ get_info(BlockKey(\H400010, 0)) # None
    /\ get_info(BlockKey(\H400010, 0)) # get_info(EntryKey)

\* C5: every group in the lookup map has its whole range inside the block
\* store, and every index of the modified set is an index of the block store.
C5_RangesAndModifiedInBounds ==
    /\ \A k \in DOMAIN map : InBounds(map[k])
    /\ \A i \in modified : 0 <= i /\ i < Len(blocks)

C5_Witness ==
    /\ stale # None
    /\ \E k \in DOMAIN map : map[k] = BlockGroup(0, MaxBlocks)
    /\ modified = 0..(MaxBlocks - 1)

(***************************************************************************)
(* Properties of the ExceptionCode taxonomy                                *)
(***************************************************************************)
\* the variants with a numeric literal in the enum
Documented == ExceptionCode \ {"UnknownError"}

\* the family of a code: the high byte of its 16-bit numeric value
family(v) == as_u32(v) \div 256

ReadFamily ==
    {"ReadUnmapped", "ReadPerm", "ReadUnaligned", "ReadWatch", "ReadUninitialized"}

WriteFamily == {"WriteUnmapped", "WritePerm", "WriteWatch", "WriteUnaligned"}

\* C2: from_u32 inverts the numeric values of the enum: for every variant v
\* with a numeric literal, from_u32(v as u32) returns v.
C2_FromU32InvertsDiscriminant ==
    call = "from_u32" =>
        \A v \in Documented : arg = as_u32(v) => ret = v

\* C6: Unmapped converts to ReadUnmapped on a load and to WriteUnmapped on a
\* store, and Unaligned to ReadUnaligned on a load and to WriteUnaligned on a
\* store.
C6_DirectionFromCallSite ==
    /\ call = "from_load_error" /\ arg = "Unmapped" => ret = "ReadUnmapped"
    /\ call = "from_store_error" /\ arg = "Unmapped" => ret = "WriteUnmapped"
    /\ call = "from_load_error" /\ arg = "Unaligned" => ret = "ReadUnaligned"
    /\ call = "from_store_error" /\ arg = "Unaligned" => ret = "WriteUnaligned"

C6_Witness ==
    /\ call = "from_store_error"
    /\ arg = "Unmapped"
    /\ ret = "WriteUnmapped"

\* C7: from_u32 maps a value that is no numeric code of the enum to
\* UnknownError in a release build and panics on it in a debug build, and
\* never panics on a numeric code of the enum.
C7_FromU32PanicsOnlyOnUnknown ==
    call = "from_u32" =>
        IF \E v \in Documented : arg = as_u32(v)
        THEN ret # Panic
        ELSE ret = IF debug_assertions THEN Panic ELSE "UnknownError"

\* C8 as stated: OptimizationError converts to UnknownError and every other
\* DecodeError to a code of the 0x10xx family.
C8_DecodeErrorsInDecodeFamily ==
    call = "from_DecodeError" =>
        IF arg = "OptimizationError"
        THEN ret = "UnknownError"
        ELSE ret \in ExceptionCode /\ family(ret) = \H10

\* C8 amended: OptimizationError converts to UnknownError, InvalidInstruction
\* to InvalidInstruction of the 0x10xx family, and NonExecutableMemory,
\* BadAlignment and DisassemblyChanged to ExecViolation, ExecUnaligned and
\* SelfModifyingCode of the 0x04xx family.
C8_DecodeErrorFamilies ==
    call = "from_DecodeError" =>
        /\ ret \in ExceptionCode
        /\ arg = "OptimizationError" => ret = "UnknownError"
        /\ arg = "InvalidInstruction" =>
               ret = "InvalidInstruction" /\ family(ret) = \H10
        /\ arg = "NonExecutableMemory" =>
               ret = "ExecViolation" /\ family(ret) = \H04
        /\ arg = "BadAlignment" =>
               ret = "ExecUnaligned" /\ family(ret) = \H04
        /\ arg = "DisassemblyChanged" =>
               ret = "SelfModifyingCode" /\ family(ret) = \H04

C8_Witness ==
    /\ call = "from_DecodeError"
    /\ arg = "BadAlignment"
    /\ ret = "ExecUnaligned"

\* C9: is_running is true exactly for None and InstructionLimit.
C9_IsRunningExactly ==
    call = "is_running" =>
        /\ arg \in {"None", "InstructionLimit"} => ret = TRUE
        /\ arg \in ExceptionCode \ {"None", "InstructionLimit"} => ret = FALSE

C9_Witness ==
    /\ call = "is_running"
    /\ arg = "Halt"
    /\ ret = FALSE

\* C10 as stated: from_load_error never returns a write-family code and
\* from_store_error never returns a read-family code.
C10_ConversionsStayInDirection ==
    /\ call = "from_load_error" => ret \notin WriteFamily
    /\ call = "from_store_error" => ret \notin ReadFamily

\* C10 amended: from_load_error returns a write-family code exactly for
\* WriteViolation and WriteWatch, and from_store_error returns a read-family
\* code exactly for Uninitalized, ReadViolation and ReadWatch; for every
\* other MemError each conversion stays inside its direction.
C10_DirectionUnlessErrorCarriesOne ==
    /\ call = "from_load_error" =>
           (ret \in WriteFamily <=> arg \in {"WriteViolation", "WriteWatch"})
    /\ call = "from_store_error" =>
           (ret \in ReadFamily <=>
               arg \in {"Uninitalized", "ReadViolation", "ReadWatch"})

C10_Witness ==
    /\ call = "from_load_error"
    /\ arg = "WriteViolation"
    /\ ret = "WritePerm"

====
